---- MODULE Spec2Model ----
(***************************************************************************)
(* pytestplate: PyTestModuleGenerator (module_generator.py) and the        *)
(* loop_modules driver (pytestplate.py).                                   *)
(*                                                                         *)
(* Strings are sequences of atoms (TLA+ strings that are either made of    *)
(* whitespace only, or have no whitespace at either end), so that          *)
(* concatenation is \o, an f-string is the concatenation of its pieces,    *)
(* and str.strip() removes whitespace atoms from both ends.  Every string  *)
(* of the model is built from the same atoms, so two strings are equal     *)
(* exactly when their atom sequences are.                                  *)
(*                                                                         *)
(* A parsed module (ast.Module) is the sequence of its nodes in document   *)
(* order, each with its kind, name and nesting depth (1 = child of the     *)
(* Module node, which is node 0).  "Stmt" stands for every node class that *)
(* has no visit_* method (If, With, Try, ...): NodeVisitor.visit sends it  *)
(* to generic_visit.  "DeepStmt" is such a node whose own nesting (a long  *)
(* chain of operators, say) is deeper than the interpreter's recursion     *)
(* limit lets generic_visit descend.                                       *)
(***************************************************************************)
EXTENDS Integers, Sequences, FiniteSets, TLC

\* Bounds of the model.
MaxNodes == 3
MaxModules == 3
MaxRuns == 2

VARIABLES modules, source, env, pc, gen, stack, raised, fs_dirs, fs_files, out

vars ==
    <<modules, source, env, pc, gen, stack, raised, fs_dirs, fs_files, out>>

-----------------------------------------------------------------------------
\* Strings

Last(s) == s[Len(s)]

Front(s) == SubSeq(s, 1, Len(s) - 1)

RECURSIVE Repeat(_, _)
Repeat(s, n) == IF n <= 0 THEN <<>> ELSE s \o Repeat(s, n - 1)

RECURSIVE Join(_, _)
Join(sep, strs) ==
    IF strs = <<>> THEN <<>>
    ELSE IF Len(strs) = 1 THEN strs[1]
    ELSE strs[1] \o sep \o Join(sep, Tail(strs))

Whitespace == {"\n", "    ", " "}

RECURSIVE LStrip(_)
LStrip(s) == IF s # <<>> /\ Head(s) \in Whitespace THEN LStrip(Tail(s)) ELSE s

RECURSIVE RStrip(_)
RStrip(s) == IF s # <<>> /\ Last(s) \in Whitespace THEN RStrip(Front(s)) ELSE s

Strip(s) == RStrip(LStrip(s))

StartsWith(s, atom) == s # <<>> /\ s[1] = atom

\* Optional values: None, or a one-element sequence holding the value.
None == <<>>

Some(x) == <<x>>

-----------------------------------------------------------------------------
\* Class attributes of PyTestModuleGenerator

linesep == <<"\n">>

tab == <<"    ">>

blankline == <<>>

default_assert_code == <<"assert False, \"not implemented\"">>

default_docstring == <<"\"\"\"Should ...\"\"\"">>

tests_dir_name == <<"tests">>

\* The character ` (a TLA+ string cannot hold it).
backquote == <<"<backquote>">>

-----------------------------------------------------------------------------
\* pathlib.Path: a path is the sequence of its components, each a string.

DotSuffixes == {".py", ".txt"}

PathName(p) == Last(p)

PathParent(p) == Front(p)

PathStem(p) ==
    LET n == PathName(p)
    IN  IF Len(n) > 1 /\ Last(n) \in DotSuffixes THEN Front(n) ELSE n

PathJoin(p, name) == Append(p, name)

-----------------------------------------------------------------------------
\* Syntax trees

DefKinds == {"FunctionDef", "AsyncFunctionDef", "ClassDef"}

Names == {<<"a">>, <<"b">>}

NodeLabels ==
    {[kind |-> k, name |-> n] : k \in DefKinds, n \in Names}
        \cup {[kind |-> "Stmt", name |-> <<>>], [kind |-> "DeepStmt", name |-> <<>>]}

Node(l, d) == [kind |-> l.kind, name |-> l.name, depth |-> d]

\* The depths of n nodes in document order: a node is a child of the node
\* before it, or of one of that node's ancestors.
Shapes(n) ==
    {ds \in [1..n -> 1..n] :
        \A k \in 1..n : ds[k] <= (IF k = 1 THEN 0 ELSE ds[k - 1]) + 1}

TreeOf(ls, ds) == [k \in DOMAIN ls |-> Node(ls[k], ds[k])]

NodeDepth(t, k) == IF k = 0 THEN 0 ELSE t[k].depth

NodeKind(t, k) == IF k = 0 THEN "Module" ELSE t[k].kind

\* The node whose body holds node j.
Parent(t, j) ==
    CHOOSE k \in 0..(j - 1) :
        /\ NodeDepth(t, k) = t[j].depth - 1
        /\ \A m \in (k + 1)..(j - 1) : t[m].depth >= t[j].depth

RECURSIVE ChildrenFrom(_, _, _)
ChildrenFrom(t, k, j) ==
    IF j > Len(t) THEN <<>>
    ELSE IF Parent(t, j) = k THEN <<j>> \o ChildrenFrom(t, k, j + 1)
    ELSE ChildrenFrom(t, k, j + 1)

\* ast.iter_child_nodes(node): the children of node k, in document order.
Children(t, k) == ChildrenFrom(t, k, k + 1)

-----------------------------------------------------------------------------
\* PyTestModuleGenerator

\* __init__
NewGenerator(module) ==
    [module |-> module,
     tests_dir |-> PathJoin(PathParent(module), tests_dir_name),
     module_docstring |-> <<>>,
     imports |-> {},
     lines |-> <<>>,
     indent |-> 0,
     current_cls |-> None]

\* list(a set): some order of its elements (imports never holds more than one).
RECURSIVE ListOf(_)
ListOf(S) ==
    IF S = {} THEN <<>>
    ELSE LET x == CHOOSE y \in S : TRUE IN <<x>> \o ListOf(S \ {x})

\* The `code` property without its strip() call.
code_NoStrip(g) ==
    Join(linesep,
         <<g.module_docstring>> \o ListOf(g.imports)
             \o <<blankline, blankline>> \o g.lines) \o linesep

\* The `code` property.
code(g) ==
    Strip(Join(linesep,
               <<g.module_docstring>> \o ListOf(g.imports)
                   \o <<blankline, blankline>> \o g.lines)) \o linesep

\* A visit_* method up to its generic_visit call: the generator it leaves and
\* the child nodes generic_visit is to visit.
Visit(g, todo) == [gen |-> g, todo |-> todo]

visit_Module(g, t) ==
    Visit([g EXCEPT
             !.module_docstring =
                 <<"\"\"\"Unit tests for", " ">> \o backquote
                     \o PathName(g.module) \o backquote \o <<"\"\"\"">>,
             !.imports = g.imports \cup {<<"import pytest">>}],
          Children(t, 0))

FunctionDefLines(g, name) ==
    LET arg_self == IF g.current_cls # None THEN <<"self">> ELSE <<>>
        blanklines == IF g.current_cls = None THEN 2 ELSE 1
    IN  << Repeat(tab, g.indent) \o <<"def test_">> \o name \o <<"(">>
               \o arg_self \o <<"):">>,
           Repeat(tab, g.indent + 1) \o default_docstring,
           Repeat(tab, g.indent + 1) \o default_assert_code >>
        \o [n \in 1..blanklines |-> blankline]

\* visit_FunctionDef without its generic_visit call.
visit_FunctionDef_NoRecurse(g, t, k) ==
    Visit([g EXCEPT !.lines = g.lines \o FunctionDefLines(g, t[k].name)], <<>>)

visit_FunctionDef(g, t, k) ==
    Visit([g EXCEPT !.lines = g.lines \o FunctionDefLines(g, t[k].name)],
          Children(t, k))

AsyncFunctionDefLines(g, name) ==
    LET blanklines == IF g.current_cls = None THEN 2 ELSE 1
    IN  << Repeat(tab, g.indent) \o <<"@pytest.mark.asyncio">>,
           Repeat(tab, g.indent) \o <<"async def test_">> \o name \o <<"():">>,
           Repeat(tab, g.indent + 1) \o default_docstring,
           Repeat(tab, g.indent + 1) \o default_assert_code >>
        \o [n \in 1..blanklines |-> blankline]

visit_AsyncFunctionDef(g, t, k) ==
    Visit([g EXCEPT !.lines = g.lines \o AsyncFunctionDefLines(g, t[k].name)],
          Children(t, k))

ClassDefLine(g, name) ==
    Repeat(tab, g.indent) \o <<"class Test">> \o name \o <<":">>

\* visit_ClassDef up to its generic_visit call (lines 79-88).
visit_ClassDef(g, t, k) ==
    Visit([g EXCEPT
             !.lines = g.lines \o
                 << ClassDefLine(g, t[k].name),
                    Repeat(tab, g.indent + 1) \o <<"\"\"\"Tests for class", " ">>
                        \o backquote \o t[k].name \o backquote \o <<"\"\"\"">> \o <<"\n">> >>,
             !.indent = g.indent + 1,
             !.current_cls = Some(t[k].name)],
          Children(t, k))

\* self.lines[-1] == clsdef_line
ClassBodyIsEmpty_LastLine(g, clsdef_line) == g.lines[Len(g.lines)] = clsdef_line

\* self.lines[-2] == clsdef_line
ClassBodyIsEmpty(g, clsdef_line) == g.lines[Len(g.lines) - 1] = clsdef_line

\* visit_ClassDef after its generic_visit call (lines 89-93).
leave_ClassDef(g, clsdef_line) ==
    LET g1 == [g EXCEPT !.current_cls = None]
        g2 == IF ClassBodyIsEmpty(g1, clsdef_line)
              THEN [g1 EXCEPT !.lines = g1.lines \o
                       <<Repeat(tab, g1.indent) \o <<"pass">>, blankline>>]
              ELSE g1
    IN  [g2 EXCEPT !.indent = g2.indent - 1,
                   !.lines = g2.lines \o <<blankline>>]

\* NodeVisitor.visit of a node with no visit_* method: generic_visit.
visit_Other(g, t, k) == Visit(g, Children(t, k))

-----------------------------------------------------------------------------
\* Source files: what a path holds on disk.

\* stat: what stat() of the path finds ("OSError": it fails with an error that
\* Path.is_dir() re-raises, as for a name that is too long or a directory that
\* cannot be searched); read_text and parse: "ok", or the exception that
\* Path.read_text() and ast.parse() raise; body: the tree ast.parse returns.
Content(stat, read_text, parse, body) ==
    [stat |-> stat, read_text |-> read_text, parse |-> parse, body |-> body]

Directory == Content("dir", "OSError", "ok", <<>>)

\* No file at the path (is_dir() is False, read_text() raises).
Missing == Content("absent", "OSError", "ok", <<>>)

\* is_dir() raises.
StatFails == Content("OSError", "OSError", "ok", <<>>)

\* A file whose bytes are not text in the encoding read_text uses.
Undecodable == Content("file", "UnicodeDecodeError", "ok", <<>>)

Malformed == Content("file", "ok", "SyntaxError", <<>>)

\* A source nested too deep for ast.parse to build its tree.
TooDeep == Content("file", "ok", "RecursionError", <<>>)

\* A source too large for ast.parse to build its tree in memory.
TooLarge == Content("file", "ok", "MemoryError", <<>>)

Parsed(t) == Content("file", "ok", "ok", t)

\* A source that parses and holds a statement the walk cannot descend.
DeepSource ==
    Parsed(<<Node([kind |-> "FunctionDef", name |-> <<"a">>], 1),
             Node([kind |-> "DeepStmt", name |-> <<>>], 1)>>)

FailingContents ==
    {Malformed, TooDeep, TooLarge, Missing, Undecodable, StatFails, DeepSource}

proj == << <<"proj">> >>

lib == << <<"lib">> >>

a_py == PathJoin(proj, <<"a", ".py">>)

a_txt == PathJoin(proj, <<"a", ".txt">>)

b_py == PathJoin(proj, <<"b", ".py">>)

bad_py == PathJoin(proj, <<"bad", ".py">>)

\* A file name that holds a byte that is not UTF-8 (a lone surrogate in the
\* str of the path).
ff_py == PathJoin(proj, <<"a", "<byte ff>", ".py">>)

\* A name longer than the filesystem allows, starting with an underscore.
long_py == PathJoin(proj, <<"_", "<300 x n>", ".py">>)

c_py == PathJoin(proj, <<"_", "c", ".py">>)

pkg == PathJoin(proj, <<"pkg">>)

lib_a_py == PathJoin(lib, <<"a", ".py">>)

WorldPaths == {a_py, a_txt, b_py, bad_py, ff_py, long_py, c_py, pkg}

ParPaths == {a_py, a_txt, b_py, bad_py, ff_py, long_py, c_py, lib_a_py}

SampleSource ==
    (a_py :> Parsed(<<Node([kind |-> "FunctionDef", name |-> <<"a">>], 1)>>))
    @@ (a_txt :> Parsed(<<Node([kind |-> "ClassDef", name |-> <<"b">>], 1),
                         Node([kind |-> "AsyncFunctionDef", name |-> <<"a">>], 2)>>))
    @@ (b_py :> Parsed(<<Node([kind |-> "Stmt", name |-> <<>>], 1),
                        Node([kind |-> "FunctionDef", name |-> <<"b">>], 2)>>))
    @@ (bad_py :> Malformed)
    @@ (ff_py :> Parsed(<<Node([kind |-> "FunctionDef", name |-> <<"a">>], 1)>>))
    @@ (long_py :> StatFails)
    @@ (c_py :> Parsed(<<>>))
    @@ (pkg :> Directory)
    @@ (lib_a_py :> Parsed(<<>>))

\* Files of a tests directory left by the user or by an earlier run.
conftest(tests_dir) == PathJoin(tests_dir, <<"conftest", ".py">>)

user_text == <<"import sys">> \o linesep

stale_text == <<"# stale">> \o linesep

EmptyDisk == [dirs |-> {}, files |-> <<>>]

\* Encodings: the atoms that str.encode refuses (it raises UnicodeEncodeError)
\* and those it replaces by "?" (errors = replace).
Unencodable(encoding) ==
    CASE encoding = "utf-8" -> {"<byte ff>"}
      [] encoding = "utf-8:surrogateescape" -> {}
      [] encoding = "utf-8:replace" -> {}
      [] encoding = "ascii" -> {"<byte ff>", "U+2794"}

Replaced(encoding) ==
    IF encoding = "utf-8:replace" THEN {"<byte ff>"} ELSE {}

Encodable(text, encoding) ==
    \A k \in DOMAIN text : text[k] \notin Unencodable(encoding)

\* What a stream of that encoding shows of text.
Encoded(text, encoding) ==
    [k \in DOMAIN text |-> IF text[k] \in Replaced(encoding) THEN "?" ELSE text[k]]

\* click.echo writes to stdout as it is, except that it wraps an ASCII stdout
\* anew as UTF-8 with errors = replace.
echo_stream(stdout) == IF stdout = "ascii" THEN "utf-8:replace" ELSE stdout

locale_encoding == "utf-8"

\* The size a file may grow to (the file size limit of the process, or the
\* room left on the disk): None, or the number of atoms that fit, and whether
\* a part of the atom after them fits as well.
FsizeLimit(n, cut) == Some([atoms |-> n, cut |-> cut])

FsizeLimits == {FsizeLimit(0, FALSE), FsizeLimit(0, TRUE), FsizeLimit(3, FALSE)}

\* A part of a string that is cut inside an atom.
PartOf(atom) == "<part of " \o atom \o ">"

Fits(text, limit) == IF limit = None THEN TRUE ELSE Len(text) <= limit[1].atoms

\* What a write of text leaves in the file when text does not fit.
FittingPrefix(text, limit) ==
    SubSeq(text, 1, limit[1].atoms)
        \o (IF limit[1].cut THEN <<PartOf(text[limit[1].atoms + 1])>> ELSE <<>>)

UsedDisk ==
    LET d == PathJoin(proj, tests_dir_name)
    IN  [dirs |-> {d},
         files |-> (conftest(d) :> user_text)
                   @@ (PathJoin(d, <<"test_", "a", ".py">>) :> stale_text)
                   @@ (PathJoin(d, <<"test_", "a", "<byte ff>", ".py">>) :> stale_text)]

\* The process environment: the file size limit and the encoding of stdout.
Env(limit, stdout) == [fsize |-> limit, stdout |-> stdout]

DefaultEnv == Env(None, "utf-8")

Environments ==
    {DefaultEnv}
        \cup {Env(limit, "utf-8") : limit \in FsizeLimits}
        \cup {Env(None, stdout) : stdout \in {"utf-8:surrogateescape", "ascii"}}

-----------------------------------------------------------------------------
\* The state machine.  pc[i] is the position of the loop body for modules[i]:
\*   "idle" (not reached), "skipped", "generate" (announced, generator built),
\*   "visit" (inside generate), "mkdir", "touch", "write_text" (inside write),
\*   "done", "raised" (an exception left loop_modules).
\* raised[i] is None, or the exception and the call of the loop body that
\* raised it: "is_dir" (line 16), "echo" (line 18), "generate" (line 19),
\* "write" (line 20).

Raise(exc, at) == Some([exc |-> exc, at |-> at])

Tree(i) == source[modules[i]].body

Frame(k, todo, line) == [node |-> k, todo |-> todo, clsdef_line |-> line]

Top(i) == Last(stack[i])

\* The top frame's generic_visit loop takes its next child; a frame for the
\* child's visit_* call is pushed.
Push(i, todo, line) ==
    LET k == Head(Top(i).todo)
    IN  stack' = [stack EXCEPT ![i] =
            Append([stack[i] EXCEPT ![Len(stack[i])].todo = Tail(Top(i).todo)],
                   Frame(k, todo, line))]

NextChildIs(i, kind) ==
    /\ pc[i] = "visit"
    /\ Top(i).todo # <<>>
    /\ Tree(i)[Head(Top(i).todo)].kind = kind

ReturnsFrom(i, kinds) ==
    /\ pc[i] = "visit"
    /\ Top(i).todo = <<>>
    /\ NodeKind(Tree(i), Top(i).node) \in kinds

echo(module) ==
    <<"U+2794", " ", "Generating test boilerplate for", " ">> \o PathName(module)

\* module.is_dir()
is_dir(content) == content.stat = "dir"

is_dir_raises(content) == content.stat = "OSError"

\* loop_modules line 16: is_dir() is evaluated first and may raise; the name is
\* looked at when it returned False.
Skips(module, content) ==
    IF is_dir_raises(content) THEN "OSError"
    ELSE IF is_dir(content) \/ StartsWith(PathName(module), "_") THEN "True"
    ELSE "False"

LoopSkip(i) ==
    /\ pc[i] = "idle"
    /\ Skips(modules[i], source[modules[i]]) = "True"
    /\ pc' = [pc EXCEPT ![i] = "skipped"]
    /\ UNCHANGED <<modules, source, env, gen, stack, raised, fs_dirs, fs_files, out>>

\* line 16 raises: nothing is printed for the path, the loop stops.
LoopIsDirRaise(i) ==
    /\ pc[i] = "idle"
    /\ Skips(modules[i], source[modules[i]]) = "OSError"
    /\ pc' = [pc EXCEPT ![i] = "raised"]
    /\ raised' = [raised EXCEPT ![i] = Raise("OSError", "is_dir")]
    /\ UNCHANGED <<modules, source, env, gen, stack, fs_dirs, fs_files, out>>

\* line 18 raises: the stream click.echo writes to cannot encode the message.
LoopEchoRaise(i) ==
    /\ pc[i] = "idle"
    /\ Skips(modules[i], source[modules[i]]) = "False"
    /\ ~Encodable(echo(modules[i]), echo_stream(env.stdout))
    /\ pc' = [pc EXCEPT ![i] = "raised"]
    /\ raised' = [raised EXCEPT ![i] = Raise("UnicodeEncodeError", "echo")]
    /\ UNCHANGED <<modules, source, env, gen, stack, fs_dirs, fs_files, out>>

LoopAnnounce(i) ==
    /\ pc[i] = "idle"
    /\ Skips(modules[i], source[modules[i]]) = "False"
    /\ Encodable(echo(modules[i]), echo_stream(env.stdout))
    /\ out' = Append(out, Encoded(echo(modules[i]), echo_stream(env.stdout)))
    /\ gen' = [gen EXCEPT ![i] = NewGenerator(modules[i])]
    /\ pc' = [pc EXCEPT ![i] = "generate"]
    /\ UNCHANGED <<modules, source, env, stack, raised, fs_dirs, fs_files>>

\* A generate that swallows the exception of ast.parse.
ast_parse_raises_Never(content) == FALSE

\* self.module.read_text() raises (OSError, UnicodeDecodeError)
read_text_raises(content) == content.read_text # "ok"

\* ast.parse(self.module.read_text()) raises (SyntaxError, RecursionError,
\* MemoryError)
ast_parse_raises(content) == content.read_text = "ok" /\ content.parse # "ok"

\* generate line 120: read_text runs first, then ast.parse.
GenerateRaise(i) ==
    /\ pc[i] = "generate"
    /\ read_text_raises(source[modules[i]]) \/ ast_parse_raises(source[modules[i]])
    /\ pc' = [pc EXCEPT ![i] = "raised"]
    /\ raised' = [raised EXCEPT ![i] =
           IF read_text_raises(source[modules[i]])
           THEN Raise(source[modules[i]].read_text, "generate")
           ELSE Raise(source[modules[i]].parse, "generate")]
    /\ UNCHANGED <<modules, source, env, gen, stack, fs_dirs, fs_files, out>>

GenerateVisitModule(i) ==
    /\ pc[i] = "generate"
    /\ ~read_text_raises(source[modules[i]])
    /\ ~ast_parse_raises(source[modules[i]])
    /\ LET v == visit_Module(gen[i], Tree(i))
       IN  /\ gen' = [gen EXCEPT ![i] = v.gen]
           /\ stack' = [stack EXCEPT ![i] = <<Frame(0, v.todo, <<>>)>>]
    /\ pc' = [pc EXCEPT ![i] = "visit"]
    /\ UNCHANGED <<modules, source, env, raised, fs_dirs, fs_files, out>>

VisitFunctionDef(i) ==
    /\ NextChildIs(i, "FunctionDef")
    /\ LET v == visit_FunctionDef(gen[i], Tree(i), Head(Top(i).todo))
       IN  /\ gen' = [gen EXCEPT ![i] = v.gen]
           /\ Push(i, v.todo, <<>>)
    /\ UNCHANGED <<modules, source, env, pc, raised, fs_dirs, fs_files, out>>

VisitAsyncFunctionDef(i) ==
    /\ NextChildIs(i, "AsyncFunctionDef")
    /\ LET v == visit_AsyncFunctionDef(gen[i], Tree(i), Head(Top(i).todo))
       IN  /\ gen' = [gen EXCEPT ![i] = v.gen]
           /\ Push(i, v.todo, <<>>)
    /\ UNCHANGED <<modules, source, env, pc, raised, fs_dirs, fs_files, out>>

VisitClassDef(i) ==
    /\ NextChildIs(i, "ClassDef")
    /\ LET k == Head(Top(i).todo)
           v == visit_ClassDef(gen[i], Tree(i), k)
       IN  /\ gen' = [gen EXCEPT ![i] = v.gen]
           /\ Push(i, v.todo, ClassDefLine(gen[i], Tree(i)[k].name))
    /\ UNCHANGED <<modules, source, env, pc, raised, fs_dirs, fs_files, out>>

\* generic_visit reaches a node it cannot descend: RecursionError leaves the
\* walk, generate (line 121) and loop_modules.
VisitRaise(i) ==
    /\ NextChildIs(i, "DeepStmt")
    /\ stack' = [stack EXCEPT ![i] = <<>>]
    /\ pc' = [pc EXCEPT ![i] = "raised"]
    /\ raised' = [raised EXCEPT ![i] = Raise("RecursionError", "generate")]
    /\ UNCHANGED <<modules, source, env, gen, fs_dirs, fs_files, out>>

VisitOther(i) ==
    /\ NextChildIs(i, "Stmt")
    /\ LET v == visit_Other(gen[i], Tree(i), Head(Top(i).todo))
       IN  /\ gen' = [gen EXCEPT ![i] = v.gen]
           /\ Push(i, v.todo, <<>>)
    /\ UNCHANGED <<modules, source, env, pc, raised, fs_dirs, fs_files, out>>

ReturnClassDef(i) ==
    /\ ReturnsFrom(i, {"ClassDef"})
    /\ gen' = [gen EXCEPT ![i] = leave_ClassDef(gen[i], Top(i).clsdef_line)]
    /\ stack' = [stack EXCEPT ![i] = Front(stack[i])]
    /\ UNCHANGED <<modules, source, env, pc, raised, fs_dirs, fs_files, out>>

ReturnOther(i) ==
    /\ ReturnsFrom(i, {"FunctionDef", "AsyncFunctionDef", "Stmt"})
    /\ stack' = [stack EXCEPT ![i] = Front(stack[i])]
    /\ UNCHANGED <<modules, source, env, pc, gen, raised, fs_dirs, fs_files, out>>

\* visit_Module returns, generate returns self, loop_modules calls write.
ReturnModule(i) ==
    /\ ReturnsFrom(i, {"Module"})
    /\ stack' = [stack EXCEPT ![i] = <<>>]
    /\ pc' = [pc EXCEPT ![i] = "mkdir"]
    /\ UNCHANGED <<modules, source, env, gen, raised, fs_dirs, fs_files, out>>

\* Path.mkdir(exist_ok=True)
mkdir(dirs, d) == dirs \cup {d}

\* A marker written anew by every write.
touch_Truncating(files, f) == (f :> <<>>) @@ files

\* Path.touch(exist_ok=True)
touch(files, f) == IF f \in DOMAIN files THEN files ELSE (f :> <<>>) @@ files

\* Path.write_text(text)
write_text(files, f, text) == (f :> text) @@ files

\* An output name that leaves out the stem.
TestFilePath_NoStem(g) == PathJoin(g.tests_dir, <<"test_">> \o <<".py">>)

\* self.tests_dir / f"test_{self.module.stem}.py"
TestFilePath(g) ==
    PathJoin(g.tests_dir, <<"test_">> \o PathStem(g.module) \o <<".py">>)

WriteMkdir(i) ==
    /\ pc[i] = "mkdir"
    /\ fs_dirs' = mkdir(fs_dirs, gen[i].tests_dir)
    /\ pc' = [pc EXCEPT ![i] = "touch"]
    /\ UNCHANGED <<modules, source, env, gen, stack, raised, fs_files, out>>

WriteTouch(i) ==
    /\ pc[i] = "touch"
    /\ fs_files' = touch(fs_files, conftest(gen[i].tests_dir))
    /\ pc' = [pc EXCEPT ![i] = "write_text"]
    /\ UNCHANGED <<modules, source, env, gen, stack, raised, fs_dirs, out>>

WriteText(i) ==
    /\ pc[i] = "write_text"
    /\ Encodable(code(gen[i]), locale_encoding)
    /\ Fits(code(gen[i]), env.fsize)
    /\ fs_files' = write_text(fs_files, TestFilePath(gen[i]), code(gen[i]))
    /\ pc' = [pc EXCEPT ![i] = "done"]
    /\ UNCHANGED <<modules, source, env, gen, stack, raised, fs_dirs, out>>

\* A filesystem call of write raises OSError.  A call that is refused
\* (permissions) changes nothing; a write_text whose text does not fit has
\* opened, and so emptied, the file and leaves in it the part that fits.
WriteRaise(i) ==
    /\ pc[i] \in {"mkdir", "touch", "write_text"}
    /\ \/ fs_files' = fs_files
       \/ /\ pc[i] = "write_text"
          /\ Encodable(code(gen[i]), locale_encoding)
          /\ ~Fits(code(gen[i]), env.fsize)
          /\ fs_files' = write_text(fs_files, TestFilePath(gen[i]),
                                    FittingPrefix(code(gen[i]), env.fsize))
    /\ pc' = [pc EXCEPT ![i] = "raised"]
    /\ raised' = [raised EXCEPT ![i] = Raise("OSError", "write")]
    /\ UNCHANGED <<modules, source, env, gen, stack, fs_dirs, out>>

\* write_text (line 130) has opened, and so emptied, the file, and cannot
\* encode the text: UnicodeEncodeError, nothing is written.
WriteEncodeRaise(i) ==
    /\ pc[i] = "write_text"
    /\ ~Encodable(code(gen[i]), locale_encoding)
    /\ fs_files' = write_text(fs_files, TestFilePath(gen[i]), <<>>)
    /\ pc' = [pc EXCEPT ![i] = "raised"]
    /\ raised' = [raised EXCEPT ![i] = Raise("UnicodeEncodeError", "write")]
    /\ UNCHANGED <<modules, source, env, gen, stack, fs_dirs, out>>

Finished(i) == pc[i] \in {"skipped", "done"}

\* cli line 31: loop_modules returned.
CliDone ==
    /\ \A i \in DOMAIN modules : Finished(i)
    /\ Last(out) # <<"Done">>
    /\ out' = Append(out, <<"Done">>)
    /\ UNCHANGED <<modules, source, env, pc, gen, stack, raised, fs_dirs, fs_files>>

\* A loop that goes on to the next module when the body raises.
Turn_ContinueAfterRaise(i) ==
    \A j \in 1..(i - 1) : pc[j] \in {"skipped", "done", "raised"}

\* The for loop of loop_modules reaches modules[i] once the body has
\* completed for every module before it.
Turn(i) == \A j \in 1..(i - 1) : Finished(j)

\* The command line ms over a disk where path p holds src[p], in environment e.
InitWith(ms, src, disk, e) ==
    /\ modules = ms
    /\ env = e
    /\ source = [p \in {ms[i] : i \in DOMAIN ms} |-> src[p]]
    /\ pc = [i \in DOMAIN ms |-> "idle"]
    /\ gen = [i \in DOMAIN ms |-> NewGenerator(ms[i])]
    /\ stack = [i \in DOMAIN ms |-> <<>>]
    /\ raised = [i \in DOMAIN ms |-> None]
    /\ fs_dirs = disk.dirs
    /\ fs_files = disk.files
    /\ out = << <<"Running pytestplate...">> >>

ModuleLists(paths, n) == UNION {[1..m -> paths] : m \in 1..n}

\* The sample sources, with bad.py failing in one of the ways a source can.
Worlds == {[SampleSource EXCEPT ![bad_py] = c] : c \in FailingContents}

\* One module on the command line; a.py holds any source text.
Init ==
    \/ \E n \in 0..MaxNodes :
          \E ls \in [1..n -> NodeLabels], ds \in Shapes(n) :
              InitWith(<<a_py>>,
                       [SampleSource EXCEPT ![a_py] = Parsed(TreeOf(ls, ds))],
                       EmptyDisk, DefaultEnv)
    \/ \E p \in WorldPaths \cup ParPaths, src \in Worlds,
          disk \in {EmptyDisk, UsedDisk}, e \in Environments :
          InitWith(<<p>>, src, disk, e)

\* Several modules on the command line, over a disk that may have been used
\* and may be short of room.
Setups ==
    {<<EmptyDisk, DefaultEnv>>, <<EmptyDisk, Env(None, "ascii")>>}
        \cup {<<UsedDisk, e>> : e \in Environments \ {Env(None, "ascii")}}

\* The paths among which bad.py fails in each of its ways.
FailingPaths == {a_py, bad_py, ff_py}

InitLoop ==
    \/ \E ms \in ModuleLists(WorldPaths, MaxModules), setup \in Setups :
          InitWith(ms, SampleSource, setup[1], setup[2])
    \/ \E ms \in ModuleLists(FailingPaths, MaxModules), src \in Worlds :
          InitWith(ms, src, UsedDisk, DefaultEnv)

\* loop_modules: one module at a time, in argument order.
Next ==
    \/ \E i \in DOMAIN modules : Turn(i) /\ LoopSkip(i)
    \/ \E i \in DOMAIN modules : Turn(i) /\ LoopIsDirRaise(i)
    \/ \E i \in DOMAIN modules : Turn(i) /\ LoopEchoRaise(i)
    \/ \E i \in DOMAIN modules : Turn(i) /\ LoopAnnounce(i)
    \/ \E i \in DOMAIN modules : Turn(i) /\ GenerateRaise(i)
    \/ \E i \in DOMAIN modules : Turn(i) /\ GenerateVisitModule(i)
    \/ \E i \in DOMAIN modules : Turn(i) /\ VisitFunctionDef(i)
    \/ \E i \in DOMAIN modules : Turn(i) /\ VisitAsyncFunctionDef(i)
    \/ \E i \in DOMAIN modules : Turn(i) /\ VisitClassDef(i)
    \/ \E i \in DOMAIN modules : Turn(i) /\ VisitRaise(i)
    \/ \E i \in DOMAIN modules : Turn(i) /\ VisitOther(i)
    \/ \E i \in DOMAIN modules : Turn(i) /\ ReturnClassDef(i)
    \/ \E i \in DOMAIN modules : Turn(i) /\ ReturnOther(i)
    \/ \E i \in DOMAIN modules : Turn(i) /\ ReturnModule(i)
    \/ \E i \in DOMAIN modules : Turn(i) /\ WriteMkdir(i)
    \/ \E i \in DOMAIN modules : Turn(i) /\ WriteTouch(i)
    \/ \E i \in DOMAIN modules : Turn(i) /\ WriteText(i)
    \/ \E i \in DOMAIN modules : Turn(i) /\ WriteRaise(i)
    \/ \E i \in DOMAIN modules : Turn(i) /\ WriteEncodeRaise(i)
    \/ CliDone

\* The orchestrator of the design: the loop bodies of the modules run
\* concurrently, each on its own generator, their steps interleaved.
InitPar ==
    \/ \E ms \in ModuleLists(ParPaths, MaxRuns) :
          InitWith(ms, SampleSource, EmptyDisk, DefaultEnv)
    \/ \E ms \in ModuleLists(FailingPaths, MaxRuns), src \in Worlds,
          e \in {DefaultEnv, Env(None, "utf-8:surrogateescape")} :
          InitWith(ms, src, EmptyDisk, e)

NextPar ==
    \/ \E i \in DOMAIN modules : LoopSkip(i)
    \/ \E i \in DOMAIN modules : LoopIsDirRaise(i)
    \/ \E i \in DOMAIN modules : LoopEchoRaise(i)
    \/ \E i \in DOMAIN modules : LoopAnnounce(i)
    \/ \E i \in DOMAIN modules : GenerateRaise(i)
    \/ \E i \in DOMAIN modules : GenerateVisitModule(i)
    \/ \E i \in DOMAIN modules : VisitFunctionDef(i)
    \/ \E i \in DOMAIN modules : VisitAsyncFunctionDef(i)
    \/ \E i \in DOMAIN modules : VisitClassDef(i)
    \/ \E i \in DOMAIN modules : VisitRaise(i)
    \/ \E i \in DOMAIN modules : VisitOther(i)
    \/ \E i \in DOMAIN modules : ReturnClassDef(i)
    \/ \E i \in DOMAIN modules : ReturnOther(i)
    \/ \E i \in DOMAIN modules : ReturnModule(i)
    \/ \E i \in DOMAIN modules : WriteMkdir(i)
    \/ \E i \in DOMAIN modules : WriteTouch(i)
    \/ \E i \in DOMAIN modules : WriteText(i)
    \/ \E i \in DOMAIN modules : WriteRaise(i)
    \/ \E i \in DOMAIN modules : WriteEncodeRaise(i)
    \/ CliDone

Spec == Init /\ [][Next]_vars

SpecPar == InitPar /\ [][NextPar]_vars

SpecLoop == InitLoop /\ [][Next]_vars

-----------------------------------------------------------------------------
\* What the claims say of a tree, read off the tree alone.

RECURSIVE Ancestors(_, _)
Ancestors(t, k) ==
    IF k = 0 THEN {} ELSE {Parent(t, k)} \cup Ancestors(t, Parent(t, k))

ClassAncestors(t, k) == {a \in Ancestors(t, k) : NodeKind(t, a) = "ClassDef"}

InsideClass(t, k) == ClassAncestors(t, k) # {}

\* The name of the innermost class around node k, None outside any class.
EnclosingClass(t, k) ==
    IF ~InsideClass(t, k) THEN None
    ELSE Some(t[CHOOSE a \in ClassAncestors(t, k) :
                    \A b \in ClassAncestors(t, k) : b <= a].name)

HasMembers(t, k) ==
    \E j \in 1..Len(t) : k \in Ancestors(t, j) /\ t[j].kind \in DefKinds

\* The lines a step appended to the body buffer of generator i.
Appended(i) == SubSeq(gen'[i].lines, Len(gen[i].lines) + 1, Len(gen'[i].lines))

RECURSIVE TrailingBlanks(_)
TrailingBlanks(ls) ==
    IF ls # <<>> /\ Last(ls) = blankline THEN 1 + TrailingBlanks(Front(ls)) ELSE 0

RECURSIVE DropTrailingBlanks(_)
DropTrailingBlanks(ls) ==
    IF ls # <<>> /\ Last(ls) = blankline THEN DropTrailingBlanks(Front(ls)) ELSE ls

Generated(i) == pc[i] \in {"mkdir", "touch", "write_text", "done"}

\* C1: when visit_ClassDef returns, indent and current_cls have the values they
\* had when it was entered: indent is the number of classes around the class,
\* current_cls is the name of the class around it (None for a top-level class).
C1_ClassDefRestoresState ==
    [][\A i \in DOMAIN modules :
          ReturnClassDef(i) =>
              /\ gen'[i].indent = Cardinality(ClassAncestors(Tree(i), Top(i).node))
              /\ gen'[i].current_cls = EnclosingClass(Tree(i), Top(i).node)]_vars

\* C2: visit_ClassDef appends a `pass` line (and a blank line, before the blank
\* line that closes the class) exactly when the subtree of the class holds no
\* FunctionDef, AsyncFunctionDef or ClassDef node, that is, exactly when a flag
\* set by every member's visit would be unset.
C2_PassIffNoMember ==
    [][\A i \in DOMAIN modules :
          ReturnClassDef(i) =>
              IF HasMembers(Tree(i), Top(i).node)
              THEN Appended(i) = <<blankline>>
              ELSE /\ Len(Appended(i)) = 3
                   /\ Appended(i)[1] = Repeat(tab, gen[i].indent) \o <<"pass">>
                   /\ Appended(i)[2] = blankline
                   /\ Appended(i)[3] = blankline]_vars

IsPassLine(line) == line # <<>> /\ Last(line) = "pass"

C2_Witness ==
    /\ pc[1] = "done"
    /\ \E k \in 1..Len(Tree(1)) :
          Tree(1)[k].kind = "ClassDef" /\ HasMembers(Tree(1), k)
    /\ \E k \in 1..Len(Tree(1)) :
          Tree(1)[k].kind = "ClassDef" /\ ~HasMembers(Tree(1), k)
    /\ \E n \in 1..Len(gen[1].lines) : IsPassLine(gen[1].lines[n])

\* C3: the lines appended for a function or async function end in exactly 2
\* blank lines when the function is not inside any class, and in exactly 1
\* when it is inside a class.
C3_BlankLinesAfterTest ==
    [][\A i \in DOMAIN modules :
          (VisitFunctionDef(i) \/ VisitAsyncFunctionDef(i)) =>
              TrailingBlanks(Appended(i)) =
                  (IF InsideClass(Tree(i), Head(Top(i).todo)) THEN 1 ELSE 2)]_vars

\* C4: after the walk, the definition lines of the body buffer (def test_<name>,
\* async def test_<name>, class Test<name>) are, in order, those of the tree's
\* FunctionDef, AsyncFunctionDef and ClassDef nodes in document order, one each.
DefPrefix(kind) ==
    CASE kind = "FunctionDef" -> "def test_"
      [] kind = "AsyncFunctionDef" -> "async def test_"
      [] kind = "ClassDef" -> "class Test"

IsDefLine(line) ==
    LStrip(line) # <<>> /\ Head(LStrip(line)) \in {DefPrefix(k) : k \in DefKinds}

IsDefNode(node) == node.kind \in DefKinds

DefLineHeads(ls) ==
    LET defs == SelectSeq(ls, IsDefLine)
    IN  [n \in DOMAIN defs |-> SubSeq(LStrip(defs[n]), 1, 2)]

DefNodeHeads(t) ==
    LET defs == SelectSeq(t, IsDefNode)
    IN  [n \in DOMAIN defs |-> <<DefPrefix(defs[n].kind)>> \o defs[n].name]

C4_DeclarationOrder ==
    \A i \in DOMAIN modules :
        Generated(i) => DefLineHeads(gen[i].lines) = DefNodeHeads(Tree(i))

C4_Witness ==
    /\ pc[1] = "done"
    /\ Len(Tree(1)) = 3
    /\ Tree(1)[1].kind = "FunctionDef" /\ Tree(1)[1].name = <<"a">>
    /\ Tree(1)[2].kind = "ClassDef" /\ Tree(1)[2].depth = 2
    /\ Tree(1)[3].kind = "AsyncFunctionDef" /\ Tree(1)[3].depth = 1
    /\ Len(DefLineHeads(gen[1].lines)) = 3

\* C5: the test of a FunctionDef inside a class is `def test_<name>(self):`,
\* that of a FunctionDef outside any class is `def test_<name>():`.
C5_SelfIffInsideClass ==
    [][\A i \in DOMAIN modules :
          VisitFunctionDef(i) =>
              LET k == Head(Top(i).todo)
              IN  LStrip(Appended(i)[1]) =
                      <<"def test_">> \o Tree(i)[k].name \o <<"(">>
                          \o (IF InsideClass(Tree(i), k) THEN <<"self">> ELSE <<>>)
                          \o <<"):">>]_vars

\* C8 as claimed: the written text is the docstring line, the import lines, two
\* blank lines and the body lines in order, and ends with exactly one newline
\* (so the blank lines that end the body buffer are not in it), also when the
\* body buffer is empty.
HeaderLines(g) == <<g.module_docstring, <<"import pytest">> >>

Written(i) == fs_files[TestFilePath(gen[i])]

C8_RenderedShape ==
    \A i \in DOMAIN modules :
        pc[i] = "done" =>
            /\ Written(i) =
                   Join(linesep, HeaderLines(gen[i]) \o <<blankline, blankline>>
                                     \o DropTrailingBlanks(gen[i].lines)) \o linesep
            /\ Written(i) = RStrip(Written(i)) \o linesep

\* C8 as amended: that shape holds when the body buffer holds a line that is
\* not blank; when it holds none (a source with no definitions) the two blank
\* lines are trimmed too: the text is the docstring line and the import lines.
C8_RenderedShapeTrimmed ==
    \A i \in DOMAIN modules :
        pc[i] = "done" =>
            /\ Written(i) =
                   Join(linesep,
                        IF DropTrailingBlanks(gen[i].lines) = <<>>
                        THEN HeaderLines(gen[i])
                        ELSE HeaderLines(gen[i]) \o <<blankline, blankline>>
                                 \o DropTrailingBlanks(gen[i].lines)) \o linesep
            /\ Written(i) = RStrip(Written(i)) \o linesep

C8_Witness ==
    /\ pc[1] = "done"
    /\ TrailingBlanks(gen[1].lines) = 3
    /\ \E k \in 1..Len(Tree(1)) : Tree(1)[k].kind = "ClassDef"

-----------------------------------------------------------------------------
\* Claims about write and loop_modules.

\* Where the claims put the files of a source path.
TestsDirOf(p) == PathJoin(PathParent(p), <<"tests">>)

MarkerOf(p) == PathJoin(TestsDirOf(p), <<"conftest", ".py">>)

TestFileOf(p) == PathJoin(TestsDirOf(p), <<"test_">> \o PathStem(p) \o <<".py">>)

DiskUnchanged == fs_dirs' = fs_dirs /\ fs_files' = fs_files

\* C6: a module whose source does not parse (or cannot be read) never enters
\* write, no step of its run changes the disk, and once its exception has
\* left generate nothing changes the disk any more.
Parses(content) == content.read_text = "ok" /\ content.parse = "ok"

C6_NoWriteAfterParseError ==
    [][\A i \in DOMAIN modules :
          ~Parses(source[modules[i]]) =>
              /\ pc'[i] \notin {"mkdir", "touch", "write_text", "done"}
              /\ (pc'[i] # pc[i] \/ pc[i] = "raised") => DiskUnchanged]_vars

C6_Witness ==
    /\ Len(modules) = 2
    /\ pc[1] = "done"
    /\ pc[2] = "raised" /\ raised[2] = Raise("SyntaxError", "generate")
    /\ ~Parses(source[modules[2]])
    /\ TestFileOf(modules[1]) \in DOMAIN fs_files

\* C7: a marker file that exists keeps its content through every step; write
\* creates it empty when it is absent; and when write completes, the test file
\* holds the artifact of that invocation, whatever it held before.
C7_MarkerKeptTestFileReplaced ==
    [][\A i \in DOMAIN modules :
          LET marker == MarkerOf(modules[i])
              test == TestFileOf(modules[i])
          IN  /\ marker \in DOMAIN fs_files =>
                     marker \in DOMAIN fs_files' /\ fs_files'[marker] = fs_files[marker]
              /\ (pc[i] = "touch" /\ pc'[i] = "write_text"
                     /\ marker \notin DOMAIN fs_files) =>
                     marker \in DOMAIN fs_files' /\ fs_files'[marker] = <<>>
              /\ (pc[i] = "write_text" /\ pc'[i] = "done") =>
                     /\ test \in DOMAIN fs_files'
                     /\ fs_files'[test] = code(gen[i])
                     /\ \A f \in DOMAIN fs_files \ {test} :
                            f \in DOMAIN fs_files' /\ fs_files'[f] = fs_files[f]]_vars

C7_Witness ==
    /\ Len(modules) = 2
    /\ modules[1] = a_py /\ modules[2] = a_txt
    /\ pc[1] = "done" /\ pc[2] = "done"
    /\ fs_files[MarkerOf(a_py)] = user_text
    /\ fs_files[TestFileOf(a_py)] = code(gen[2])
    /\ code(gen[2]) # code(gen[1])

\* C9 as claimed: two runs of distinct source paths write distinct test files,
\* so that, however their steps interleave, once both have completed each test
\* file holds the artifact of its own source, and the marker exists.
C9_DistinctPathsDistinctFiles ==
    \A i, j \in DOMAIN modules :
        (modules[i] # modules[j] /\ pc[i] = "done" /\ pc[j] = "done") =>
            /\ TestFilePath(gen[i]) # TestFilePath(gen[j])
            /\ fs_files[TestFileOf(modules[i])] = code(gen[i])
            /\ MarkerOf(modules[i]) \in DOMAIN fs_files

\* C9 as amended: that holds of source paths that differ in their parent
\* directory or in their stem: their test files are distinct, and a completed
\* run's test file holds the artifact of its own source when every other path
\* of the invocation differs from its path in one of the two.  (Two paths that
\* differ only in their suffix, a.py and a.txt, share test_a.py, which holds
\* what the later write left.)
SharesTestFile(p, q) == PathParent(p) = PathParent(q) /\ PathStem(p) = PathStem(q)

C9_DistinctStemsDistinctFiles ==
    \A i \in DOMAIN modules :
        /\ \A j \in DOMAIN modules :
               ~SharesTestFile(modules[i], modules[j]) =>
                   TestFilePath(gen[i]) # TestFilePath(gen[j])
        /\ (/\ pc[i] = "done"
            /\ \A j \in DOMAIN modules \ {i} :
                   ~SharesTestFile(modules[i], modules[j])) =>
               /\ fs_files[TestFileOf(modules[i])] = code(gen[i])
               /\ MarkerOf(modules[i]) \in DOMAIN fs_files

C9_Witness ==
    /\ Len(modules) = 2
    /\ modules[1] = a_py /\ modules[2] = b_py
    /\ pc[1] = "done" /\ pc[2] = "done"
    /\ fs_files[TestFileOf(a_py)] = code(gen[1])
    /\ fs_files[TestFileOf(b_py)] = code(gen[2])

\* C10: the paths are processed in argument order, and when the body raises for
\* modules[i]: every path before it was skipped or has its test file on disk,
\* the last message printed is the progress message of modules[i] (as stdout
\* shows it) when it is generate or write that raised (is_dir and echo raise
\* before it), the
\* messages are those of the paths up to i that are not skipped, in order, and
\* no path after it has been announced, generated or written.
RaisedAt(i, calls) == pc[i] = "raised" /\ raised[i][1].at \in calls

Announced(i) == pc[i] \notin {"idle", "skipped"} /\ ~RaisedAt(i, {"is_dir", "echo"})

\* The progress message of a path as stdout shows it: a character of the name
\* that an ASCII stdout cannot show is printed as "?".
ProgressMessage(module) ==
    LET msg == <<"U+2794", " ", "Generating test boilerplate for", " ">>
                   \o PathName(module)
    IN  [k \in DOMAIN msg |->
            IF env.stdout = "ascii" /\ msg[k] = "<byte ff>" THEN "?" ELSE msg[k]]

Echoes(n) ==
    LET started == SelectSeq([k \in 1..n |-> k], Announced)
    IN  [k \in DOMAIN started |-> ProgressMessage(modules[started[k]])]

C10_StopsAtFirstFailure ==
    \A i \in DOMAIN modules :
        /\ pc[i] # "idle" => \A j \in 1..(i - 1) : Finished(j)
        /\ pc[i] = "raised" =>
              /\ \A j \in 1..(i - 1) :
                     pc[j] = "done" => TestFileOf(modules[j]) \in DOMAIN fs_files
              /\ out = << <<"Running pytestplate...">> >> \o Echoes(i)
              /\ RaisedAt(i, {"generate", "write"}) =>
                     Last(out) = ProgressMessage(modules[i])
              /\ \A j \in (i + 1)..Len(modules) :
                     /\ pc[j] = "idle"
                     /\ gen[j].lines = <<>> /\ gen[j].imports = {}
              /\ ~ENABLED Next

\* The second of three paths fails in write after its message was printed with
\* a replaced character; the first is written, the third is waiting.
C10_Witness ==
    /\ Len(modules) = 3
    /\ pc[1] = "done" /\ RaisedAt(2, {"write"}) /\ pc[3] = "idle"
    /\ Skips(modules[3], source[modules[3]]) = "False"
    /\ TestFileOf(modules[1]) \in DOMAIN fs_files
    /\ Len(out) = 3
    /\ Last(out) # echo(modules[2])

====
